---- MODULE Spec2Model ----
(***************************************************************************)
(* Feed fan-out and timeline service (FoBoHuang/feed-system).              *)
(*                                                                         *)
(* The model follows the optimized feed path: OptimizedFeedService         *)
(* (publish, distribute, read, pull-mode, rebuild), TimelineCacheService   *)
(* (the Redis sorted sets), ActivityService, CacheStrategyService and      *)
(* RecoveryService.  Time is counted in ticks; TicksPerSecond ticks make   *)
(* one second, so that time.Time values keep a sub-second part while the   *)
(* sorted-set scores are whole seconds, as in the source.                  *)
(*                                                                         *)
(* Specifications: Spec (the whole service), StoreSpec and CapSpec (the    *)
(* timeline store called directly), ReadSpec (reads, rebuilds and deletes  *)
(* over published posts), ActivitySpec (the activity service), BusSpec     *)
(* (the consumer of the feed-events topic with its two workers) and        *)
(* RecoverySpec (the fan-out and the recovery job).                        *)
(***************************************************************************)
EXTENDS Integers, Sequences, FiniteSets, TLC

\* ------------------------------------------------------------------------
\* Bounds of the model
\* ------------------------------------------------------------------------
Users == {"a", "b", "c", "d"}

\* users that publish / read in the model
Authors == {"a"}

Viewers == {"b"}

\* follow graphs <<follower, followee>> the behaviours start from
InitialGraphs ==
    {{<<"b", "a">>, <<"c", "a">>},
     {<<"b", "a">>, <<"c", "a">>, <<"d", "a">>}}

MaxPosts == 2

PostIDs == 1..MaxPosts

MaxTime == 2

TicksPerSecond == 2

\* page sizes a client asks for (handler accepts 1..100)
MaxLimit == 1

Limits == 1..MaxLimit

\* pending asynchronous rebuild goroutines
MaxRebuilds == 1

\* feed reads and activity reports served in one behaviour
MaxRequests == 2

\* recovery cycles run in one behaviour
MaxCycles == 1

\* failures (a store or database call that fails, a process crash) injected
\* in one behaviour
MaxFaults == 1

\* posts of the store-level specification
MaxEntries == 3

StoreIDs == 1..MaxEntries

\* timeline owners of the store-level specification
StoreOwners == {"b", "c"}

\* publish requests between the post's row and the end of its fan-out
MaxInFlight == 1

\* posts tombstoned in a behaviour
MaxDeletes == 1

\* restarts of the process in a behaviour
MaxRestarts == 1

\* ------------------------------------------------------------------------
\* Configuration and program constants (scaled where the model is bounded)
\* ------------------------------------------------------------------------
\* the posts of the followee that handleFollowDeleted looks at
UnfollowPurgeLimit == 100

\* the posts of the followee that handleFollowCreated inserts
BackfillLimit == 10

\* feed.push_threshold (5000 in the shipped configuration)
PushThreshold == 2

\* feed.max_feed_size (1000 in the shipped configuration)
MaxFeedSize == 1

\* TimelineCacheService MaxTimelineSize (1000 in the source)
MaxTimelineSize == 2

\* CacheStrategyService MaxTimelineItemsActive / Inactive (1000 / 200)
MaxTimelineItemsActive == 2

MaxTimelineItemsInactive == 1

\* limit passed to GetActiveFollowers by the distributor (1000)
HotActiveLimit == 1

ActiveUserScoreThreshold == 50

MaxActivityScore == 1000

\* 15 * time.Minute, in seconds
OnlineUserCacheTTL == 900

\* 7 * 24 hours, in seconds
ActiveWindow == 604800

\* recoverSingleDistribution: records younger than this are skipped
RecoveryTimeout == 300

\* the period of the recovery job's ticker, in seconds
RecoveryInterval == 300

Nil == "nil"

NoPost == [userID |-> Nil]

NoRecord == [status |-> Nil]

NoResp == [viewer |-> Nil]

VARIABLES
    now,              \* wall clock, in ticks
    follows,          \* follows table, live rows: set of <<follower, followee>>
    users,            \* users table
    posts,            \* posts table, with the position of the publish request
    timeline,         \* Redis sorted sets timeline:<user>
    ttl,              \* expiration set on timeline:<user>
    ledger,           \* Redis keys distribution_status:<post>
    activeFollowers,  \* Redis sorted sets active_followers:<user>
    userActive,       \* Redis keys user_active:<user>
    events,           \* events published on the feed-events topic
    rebuilds,         \* rebuild goroutines started by pull-mode, not yet run
    resp,             \* the last response of OptimizedFeedService.GetFeed
    requests,         \* feed reads and activity reports served so far
    recovery,         \* the recovery cycles completed so far
    faults,           \* failures injected so far
    timelines,        \* timelines table of the database: rows <<user, post, copy>>
    userEvents,       \* events published on the user-events topic
    reader,           \* the kafka.Reader of feedEventsConsumer
    workers,          \* the Subscribe loop of each worker
    handled,          \* history: the handler calls that returned
    unfollowed,       \* follows rows with deleted_at set: <<follower, followee>>
    feedCache         \* Redis keys feed:<user>:<cursor>:<limit> of FeedService

vars == <<now, follows, users, posts, timeline, ttl, ledger, activeFollowers,
          userActive, events, rebuilds, resp, requests, recovery, faults,
          timelines, userEvents, reader, workers, handled, unfollowed, feedCache>>

\* the database timelines table, the user-events topic, the consumer of
\* the feed-events topic, the soft-deleted rows of the follows table and the
\* response cache of FeedService
busVars == <<timelines, userEvents, reader, workers, handled, unfollowed, feedCache>>

\* the two workers that main starts on the one feedEventsConsumer
Workers == {"FeedWorker", "OptimizedFeedWorker"}

\* no timelines row, nothing published on user-events, nothing fetched
IdleBus ==
    /\ timelines = {}
    /\ userEvents = <<>>
    /\ reader = [offset |-> 0, committed |-> 0]
    /\ workers = [w \in Workers |-> 0]
    /\ handled = {}
    /\ unfollowed = {}
    /\ feedCache = {}

\* ------------------------------------------------------------------------
\* Helpers
\* ------------------------------------------------------------------------
Min(x, y) == IF x <= y THEN x ELSE y

\* time.Time.Unix(): whole seconds
Unix(t) == t \div TicksPerSecond

Last(s) == s[Len(s)]

SeqToSet(s) == {s[i] : i \in 1..Len(s)}

\* ------------------------------------------------------------------------
\* Redis sorted set commands (a sorted set is a set of [member, score]
\* with one element per member, ordered by score and then by member)
\* ------------------------------------------------------------------------
ZLess(x, y) ==
    \/ x.score < y.score
    \/ x.score = y.score /\ x.member < y.member

ZRank(z, e) == Cardinality({x \in z : ZLess(x, e)})

ZMembers(z) == {e.member : e \in z}

ZAdd(z, member, score) ==
    {e \in z : e.member # member} \cup {[member |-> member, score |-> score]}

ZCard(z) == Cardinality(z)

ZRem(z, member) == {e \in z : e.member # member}

\* ranks start..stop (negative indexes count from the highest rank)
ZRemRangeByRank(z, start, stop) ==
    LET n  == Cardinality(z)
        lo == IF start < 0 THEN n + start ELSE start
        hi == IF stop < 0 THEN n + stop ELSE stop
    IN  {e \in z : ~(lo <= ZRank(z, e) /\ ZRank(z, e) <= hi)}

\* ZREVRANGEBYSCORE key (max -inf LIMIT 0 count WITHSCORES
ZRevRangeByScoreWithScores(z, maxExclusive, count) ==
    LET E == {e \in z : e.score < maxExclusive}
        n == Min(count, Cardinality(E))
    IN  [i \in 1..n |->
            CHOOSE e \in E : Cardinality({x \in E : ZLess(e, x)}) = i - 1]

\* ------------------------------------------------------------------------
\* Cursors.  A cursor is a string; the model keeps what the parsers make of
\* it: "%.0f" of a score, time.RFC3339Nano of a time, or the empty string.
\* ------------------------------------------------------------------------
EmptyCursor == [kind |-> "empty", val |-> 0]

\* fmt.Sprintf("%.0f", score)
FormatScore(score) == [kind |-> "epoch", val |-> score]

\* t.Format(time.RFC3339Nano)
FormatRFC3339Nano(t) == [kind |-> "rfc3339", val |-> t]

\* strconv.ParseFloat(cursor, 64)
ParseFloat(cursor) == [ok |-> cursor.kind = "epoch", val |-> cursor.val]

\* time.Parse(time.RFC3339Nano, cursor)
ParseRFC3339Nano(cursor) == [ok |-> cursor.kind = "rfc3339", val |-> cursor.val]

\* ------------------------------------------------------------------------
\* Repositories
\* ------------------------------------------------------------------------
Followers(u) == {e[1] : e \in {x \in follows : x[2] = u}}

Following(u) == {e[2] : e \in {x \in follows : x[1] = u}}

\* a query with LIMIT and no ORDER BY returns any `limit` rows
LimitRows(rows, limit) ==
    {R \in SUBSET rows : Cardinality(R) = Min(limit, Cardinality(rows))}

\* the rows of the follows table that a JOIN written as a string sees: the
\* deleted_at filter is added for the model of the query only (users), so
\* the soft-deleted rows join as well
JoinedFollows == follows \cup unfollowed

\* FollowRepository.GetFollowers(userID, 0, limit): the possible results
GetFollowers(u, limit) ==
    LimitRows({e[1] : e \in {x \in JoinedFollows : x[2] = u}}, limit)

\* FollowRepository.GetFollowing(userID, 0, limit): the possible results
GetFollowing(u, limit) ==
    LimitRows({e[2] : e \in {x \in JoinedFollows : x[1] = u}}, limit)

Created == {p \in PostIDs : posts[p] # NoPost}

\* PostRepository.GetByID / GetByIDs: rows with is_deleted = false
Live == {p \in Created : ~posts[p].isDeleted}

\* PostRepository.GetPostsByUserIDs: ORDER BY created_at DESC LIMIT limit;
\* rows with equal created_at come in any order: the possible results
GetPostsByUserIDs(userIDs, cursor, limit) ==
    LET c == ParseRFC3339Nano(cursor)
        S == {p \in Live : /\ posts[p].userID \in userIDs
                           /\ (cursor # EmptyCursor /\ c.ok) => posts[p].createdAt < c.val}
        n == Min(limit, Cardinality(S))
    IN  {s \in [1..n -> S] :
            /\ \A i, j \in 1..n : i < j =>
                  /\ s[i] # s[j]
                  /\ posts[s[i]].createdAt >= posts[s[j]].createdAt
            /\ \A p \in S \ {s[i] : i \in 1..n} :
                  \A i \in 1..n : posts[p].createdAt <= posts[s[i]].createdAt}

\* ------------------------------------------------------------------------
\* ActivityService
\* ------------------------------------------------------------------------
\* getActivityIncrement
getActivityIncrement(activityType) ==
    CASE activityType = "login"     -> 5
      [] activityType = "post"      -> 15
      [] activityType = "like"      -> 2
      [] activityType = "comment"   -> 8
      [] activityType = "share"     -> 10
      [] activityType = "view_feed" -> 1
      [] OTHER                      -> 1

\* score * 0.9^(hours/24), in whole days (the source uses math.Pow)
RECURSIVE Decay(_, _)
Decay(score, ticks) ==
    IF ticks < 86400 * TicksPerSecond THEN score
    ELSE Decay((score * 9) \div 10, ticks - 86400 * TicksPerSecond)

\* a variant of UpdatedUser that does not limit the score
UpdatedUserUnclamped(user, activityType) ==
    [user EXCEPT !.lastActiveAt = <<now>>, !.isOnline = TRUE,
                 !.activityScore = @ + getActivityIncrement(activityType)]

\* UpdateUserActivity: the row written back by userRepo.Update
UpdatedUser(user, activityType) ==
    LET u1 == [user EXCEPT !.lastActiveAt = <<now>>, !.isOnline = TRUE]
        increment == getActivityIncrement(activityType)
        \* LastActiveAt was set to now just above
        raw == IF u1.lastActiveAt # <<>>
               THEN Decay(u1.activityScore, now - u1.lastActiveAt[1]) + increment
               ELSE increment
    IN  [u1 EXCEPT !.activityScore = Min(raw, MaxActivityScore)]

\* calculateUserActivity
calculateUserActivity(user) ==
    \/ user.isOnline
    \/ user.activityScore >= ActiveUserScoreThreshold
    \/ /\ user.lastActiveAt # <<>>
       /\ now - user.lastActiveAt[1] < ActiveWindow * TicksPerSecond

\* IsUserActive, when the database answers: the cached flag, else computed
IsUserActive(u) ==
    IF userActive[u] # Nil THEN userActive[u] = "1"
    ELSE calculateUserActivity(users[u])

\* the user_active:<u> key after IsUserActive
CachedActive(u) ==
    IF userActive[u] # Nil THEN userActive[u]
    ELSE IF calculateUserActivity(users[u]) THEN "1" ELSE "0"

\* the followers of u that calculateUserActivity finds active
ActiveFollowers(u) == {f \in Followers(u) : calculateUserActivity(users[f])}

\* getActiveFollowersFromCache: ZREVRANGE active_followers:<u> 0 -1
getActiveFollowersFromCache(u) == activeFollowers[u]

\* GetActiveFollowers: the cached list cut to limit; on a miss the
\* database query is not implemented and the result is empty
GetActiveFollowers(u, limit) ==
    LET cached == getActiveFollowersFromCache(u)
    IN  IF Len(cached) > 0
        THEN SeqToSet(SubSeq(cached, 1, Min(limit, Len(cached))))
        ELSE {}

\* ------------------------------------------------------------------------
\* TimelineCacheService.  TTL classes of a timeline key: "24h"
\* (TimelineCacheTTL), "7d" (ActiveUserCacheTTL), "2h" (InactiveUserCacheTTL),
\* Nil for a key without expiration or a key that does not exist.
\* ------------------------------------------------------------------------
\* EXPIRE key ttl: no effect on a key that does not exist (an empty set)
Expire(z, old, new) == IF z = {} THEN Nil ELSE new

\* a variant of AddEntry that trims the newest entries instead of the oldest
AddEntryTrimNewest(z, postID, timestamp) ==
    ZRemRangeByRank(ZAdd(z, postID, Unix(timestamp)), MaxTimelineSize, -1)

\* one owner's share of AddToTimeline / BatchAddToTimeline:
\* ZADD, ZREMRANGEBYRANK 0 -(MaxTimelineSize+1)
AddEntry(z, postID, timestamp) ==
    ZRemRangeByRank(ZAdd(z, postID, Unix(timestamp)), 0, -MaxTimelineSize - 1)

\* the timelines after the owners in `written` got their commands
AddToOwners(tl, written, postID, timestamp) ==
    [u \in Users |-> IF u \in written THEN AddEntry(tl[u], postID, timestamp)
                     ELSE tl[u]]

ExpireOwners(tl, t, written, new) ==
    [u \in Users |-> IF u \in written THEN Expire(tl[u], t[u], new) ELSE t[u]]

\* GetTimeline: [items, nextCursor, hasMore]
GetTimeline(z, cursor, limit) ==
    LET parsed   == ParseFloat(cursor)
        maxScore == IF cursor # EmptyCursor /\ parsed.ok THEN parsed.val
                    ELSE Unix(now)
        results  == ZRevRangeByScoreWithScores(z, maxScore, limit + 1)
        hasMore  == Len(results) > limit
        items    == IF hasMore THEN SubSeq(results, 1, limit) ELSE results
    IN  [items      |-> items,
         nextCursor |-> IF Len(items) > 0 THEN FormatScore(Last(items).score)
                        ELSE EmptyCursor,
         hasMore    |-> hasMore]

\* SetTimelineExpiration
SetTimelineExpiration(z, old, isActiveUser) ==
    Expire(z, old, IF isActiveUser THEN "7d" ELSE "2h")

\* RebuildTimelineFromDB: DEL, then ZADD of every fetched post and EXPIRE
RebuildTimelineFromDB(fetched) ==
    {[member |-> fetched[i], score |-> Unix(posts[fetched[i]].createdAt)] :
        i \in 1..Len(fetched)}

\* ------------------------------------------------------------------------
\* CacheStrategyService
\* ------------------------------------------------------------------------
\* DetermineUserCacheStrategy: isActive is IsUserActive's answer, false
\* when it fails; the VIP test is not implemented
DetermineUserCacheStrategy(isActive) ==
    LET isVIP == FALSE
    IN  [isActive |-> isActive,
         isVIP    |-> isVIP,
         cacheTTL |-> IF isVIP THEN "30d" ELSE IF isActive THEN "7d" ELSE "2h",
         maxTimelineItems |->
             IF isVIP THEN MaxTimelineItemsActive * 2
             ELSE IF isActive THEN MaxTimelineItemsActive
             ELSE MaxTimelineItemsInactive]

\* trimUserTimeline
trimUserTimeline(z, maxItems) == ZRemRangeByRank(z, 0, -maxItems - 1)

\* ------------------------------------------------------------------------
\* RecoveryService
\* ------------------------------------------------------------------------
\* scanKeys: SCAN is not implemented, the result is the empty list
scanKeys(pattern) == {}

\* checkPostInTimeline: ZSCORE timeline:<u> <post>
checkPostInTimeline(tl, u, p) == p \in ZMembers(tl[u])

\* a variant of updateDistributionStatus that writes the started status of
\* the push-to-all mode whatever status it is given
updateDistributionStatusReopening(lg, p, status) ==
    IF lg[p] = NoRecord THEN lg
    ELSE [lg EXCEPT ![p] = [@ EXCEPT !.status = "regular_push_started",
                                     !.timestamp = Unix(now)]]

\* updateDistributionStatus: GET, set status and timestamp, SET; the GET of
\* a missing key is an error and nothing is written
updateDistributionStatus(lg, p, status) ==
    IF lg[p] = NoRecord THEN lg
    ELSE [lg EXCEPT ![p] = [@ EXCEPT !.status = status, !.timestamp = Unix(now)]]

\* recoverInfluencerDistribution / recoverRegularDistribution on the stores
\* st = [timeline, ttl, ledger], for the listed followers
recoverDistribution(st, p, listed, status) ==
    LET need == {f \in listed : ~checkPostInTimeline(st.timeline, f, p)}
        tl   == AddToOwners(st.timeline, need, p, posts[p].createdAt)
    IN  [timeline |-> tl,
         ttl      |-> ExpireOwners(tl, st.ttl, need, "24h"),
         ledger   |-> updateDistributionStatus(st.ledger, p, status)]

recoverInfluencerDistribution(st, p) ==
    recoverDistribution(st, p, GetActiveFollowers(posts[p].userID, HotActiveLimit),
                        "influencer_push_completed")

recoverRegularDistribution(st, p) ==
    recoverDistribution(st, p,
                        CHOOSE R \in GetFollowers(posts[p].userID, 10000) : TRUE,
                        "regular_push_completed")

\* recoverSingleDistribution for the key distribution_status:<p>
recoverSingleDistribution(st, p) ==
    LET status == st.ledger[p]
    IN  IF Unix(now) - status.timestamp < RecoveryTimeout THEN st
        ELSE IF p \notin Live
             THEN [st EXCEPT !.ledger[p] = NoRecord]
        ELSE IF status.status = "influencer_push_started"
             THEN recoverInfluencerDistribution(st, p)
        ELSE IF status.status = "regular_push_started"
             THEN recoverRegularDistribution(st, p)
        ELSE [st EXCEPT !.ledger[p] = NoRecord]

RECURSIVE RecoverKeys(_, _)
RecoverKeys(st, keys) ==
    IF keys = {} THEN st
    ELSE LET p == CHOOSE k \in keys : TRUE
         IN  RecoverKeys(recoverSingleDistribution(st, p), keys \ {p})

\* ------------------------------------------------------------------------
\* Initial state: registered users who have not acted yet, a follow graph
\* with its follower counters, empty stores
\* ------------------------------------------------------------------------
Init ==
    /\ now = 0
    /\ follows \in InitialGraphs
    /\ users = [u \in Users |->
                  [followers     |-> Cardinality({e \in follows : e[2] = u}),
                   isOnline      |-> FALSE,
                   activityScore |-> 0,
                   lastActiveAt  |-> <<>>]]
    /\ posts = [p \in PostIDs |-> NoPost]
    /\ timeline = [u \in Users |-> {}]
    /\ ttl = [u \in Users |-> Nil]
    /\ ledger = [p \in PostIDs |-> NoRecord]
    /\ activeFollowers = [u \in Users |-> <<>>]
    /\ userActive = [u \in Users |-> Nil]
    /\ events = <<>>
    /\ rebuilds = {}
    /\ resp = NoResp
    /\ requests = 0
    /\ recovery = [cycles |-> 0]
    /\ faults = 0
    /\ IdleBus

\* number of the failures among the outcomes bs (TRUE is a success)
Failures(bs) == Cardinality({i \in 1..Len(bs) : ~bs[i]})

\* ------------------------------------------------------------------------
\* Time
\* ------------------------------------------------------------------------
Tick ==
    /\ now < MaxTime
    /\ now' = now + 1
    /\ UNCHANGED <<follows, users, posts, timeline, ttl, ledger, activeFollowers,
                   userActive, events, rebuilds, resp, requests, recovery, faults>>
    /\ UNCHANGED busVars

\* the ticks are over and more than RecoveryTimeout passes at once
Elapse ==
    /\ now = MaxTime
    /\ now' = now + (RecoveryTimeout + 1) * TicksPerSecond
    /\ UNCHANGED <<follows, users, posts, timeline, ttl, ledger, activeFollowers,
                   userActive, events, rebuilds, resp, requests, recovery, faults>>
    /\ UNCHANGED busVars

\* ------------------------------------------------------------------------
\* OptimizedFeedService.CreatePost, up to the post's row being written
\* ------------------------------------------------------------------------
CreatePost(u) ==
    /\ Cardinality(Created) < MaxPosts
    /\ Cardinality({p \in Created : posts[p].state = "created"}) < MaxInFlight
    /\ \E id \in PostIDs \ Created :      \* gen_random_uuid()
         posts' = [posts EXCEPT ![id] =
                     [userID          |-> u,
                      createdAt       |-> now,
                      isDeleted       |-> FALSE,
                      state           |-> "created",
                      \* author.Followers as read before the post was written
                      authorFollowers |-> users[u].followers,
                      \* the followers the distributor listed
                      followers       |-> {},
                      \* the author's followers (push-to-all) or active
                      \* followers (push-to-active) when the fan-out ran
                      audience        |-> {},
                      \* no listing or write of the fan-out failed
                      writesOk        |-> FALSE,
                      \* the fan-out's follower listing and batch write
                      \* succeeded; its function returned an error
                      listOk          |-> TRUE,
                      batchOk         |-> TRUE,
                      distErr         |-> FALSE]]
    /\ users' = [users EXCEPT ![u] = UpdatedUser(@, "post")]
    /\ userActive' = [userActive EXCEPT ![u] = Nil]
    /\ UNCHANGED <<now, follows, timeline, ttl, ledger, activeFollowers, events,
                   rebuilds, resp, requests, recovery, faults>>
    /\ UNCHANGED busVars

PostCreatedEvent(p) ==
    [type |-> "post_created", key |-> posts[p].userID, postID |-> p]

DistributionCompletedEvent(p) ==
    [type |-> "post_distribution_completed", key |-> posts[p].userID, postID |-> p]

\* a variant of createPostResult that hands the errors to the caller
createPostResultPropagating(distErr, pubErr) ==
    IF distErr \/ pubErr THEN "failed" ELSE "returned"

\* what CreatePost does with the error of distributePostOptimized and with
\* the error of producer.Publish once the post's row is written: both are
\* logged and the post is returned
createPostResult(distErr, pubErr) == "returned"

\* distributeForRegularUser and the rest of CreatePost.  listOk: the
\* follower listing answered; written: the owners whose pipelined commands
\* were applied; selfOk: the author's own ZADD succeeded; crash: the
\* process died after the batch; pubOk: the post_created event was
\* published.
distributeForRegularUser(p) ==
    LET author == posts[p].userID
        at     == posts[p].createdAt
    IN  \E listOk, selfOk, crash, pubOk \in BOOLEAN :
        \E listed \in GetFollowers(author, MaxFeedSize) :
        \E written \in SUBSET listed :
          LET self == listOk /\ selfOk /\ ~crash
              got  == IF listOk THEN written ELSE {}
              tl1  == AddToOwners(timeline, got, p, at)
              t1   == ExpireOwners(tl1, ttl, got, "24h")
              tl2  == IF self THEN [tl1 EXCEPT ![author] = AddEntry(@, p, at)]
                      ELSE tl1
              t2   == IF self THEN [t1 EXCEPT ![author] = Expire(tl2[author], @, "24h")]
                      ELSE t1
          IN  /\ faults' = faults + Failures(<<listOk, written = listed, selfOk, ~crash,
                                                crash \/ pubOk>>)
              /\ faults' <= MaxFaults
              /\ timeline' = tl2
              /\ ttl' = t2
              /\ posts' = [posts EXCEPT
                             ![p].state     = IF crash THEN "crashed"
                                              ELSE createPostResult(~listOk, ~pubOk),
                             ![p].followers = IF listOk THEN listed ELSE {},
                             ![p].audience  = Followers(author),
                             ![p].writesOk  = listOk /\ written = listed /\ self,
                             ![p].listOk    = listOk,
                             ![p].batchOk   = listOk => written = listed,
                             \* only the listing's error is returned
                             ![p].distErr   = ~listOk]
              /\ events' = IF crash \/ ~pubOk THEN events
                           ELSE Append(events, PostCreatedEvent(p))
              /\ UNCHANGED ledger

\* distributeForInfluencer and the rest of CreatePost.  ledgerOk: the SET
\* of the status key succeeded; crash: the process died before it;
\* distPubOk, pubOk: the post_distribution_completed and post_created
\* events were published.  distributeForInfluencer returns no error.
distributeForInfluencer(p) ==
    LET author == posts[p].userID
        at     == posts[p].createdAt
        activeFollowerIDs == GetActiveFollowers(author, HotActiveLimit)
    IN  \E ledgerOk, crash, distPubOk, pubOk \in BOOLEAN :
        \E written \in SUBSET activeFollowerIDs :
          LET tl1 == AddToOwners(timeline, written, p, at)
          IN  /\ faults' = faults + Failures(<<written = activeFollowerIDs, ledgerOk, ~crash,
                                                crash \/ distPubOk, crash \/ pubOk>>)
              /\ faults' <= MaxFaults
              /\ timeline' = tl1
              /\ ttl' = ExpireOwners(tl1, ttl, written, "24h")
              /\ ledger' = IF ledgerOk /\ ~crash
                           THEN [ledger EXCEPT ![p] =
                                   [status    |-> "influencer_push_completed",
                                    timestamp |-> Unix(now),
                                    authorID  |-> author]]
                           ELSE ledger
              /\ posts' = [posts EXCEPT
                             ![p].state     = IF crash THEN "crashed"
                                              ELSE createPostResult(FALSE, ~pubOk),
                             ![p].followers = activeFollowerIDs,
                             ![p].audience  = ActiveFollowers(author),
                             ![p].writesOk  = written = activeFollowerIDs /\ ledgerOk
                                              /\ ~crash,
                             ![p].batchOk   = written = activeFollowerIDs]
              /\ events' = IF crash THEN events
                           ELSE events
                                \o (IF distPubOk THEN <<DistributionCompletedEvent(p)>>
                                    ELSE <<>>)
                                \o (IF pubOk THEN <<PostCreatedEvent(p)>> ELSE <<>>)

IsInfluencer(p) == posts[p].authorFollowers > PushThreshold

\* distributePostOptimized
distributePostOptimized(p) ==
    IF IsInfluencer(p) THEN distributeForInfluencer(p)
    ELSE distributeForRegularUser(p)

Distribute(p) ==
    /\ p \in Created
    /\ posts[p].state = "created"
    /\ distributePostOptimized(p)
    /\ UNCHANGED <<now, follows, users, activeFollowers, userActive, rebuilds,
                   resp, requests, recovery>>
    /\ UNCHANGED busVars

\* a variant of getPostsByIDs that returns every id of the items, the
\* tombstoned posts included
getPostsByIDsUnfiltered(items) ==
    [i \in 1..Len(items) |-> items[i].member]

\* ------------------------------------------------------------------------
\* OptimizedFeedService.GetFeed
\* ------------------------------------------------------------------------
\* getPostsByIDs: the items' posts that GetByIDs returns, in timeline order
getPostsByIDs(items) ==
    LET ids == [i \in 1..Len(items) |-> items[i].member]
    IN  SelectSeq(ids, LAMBDA id : id \in Live)

\* the response built from the timeline store (seq numbers the request
\* that was answered; GetFeed adds `logged`, the errors of the call)
CacheResponse(v, cursor, limit, page) ==
    [viewer     |-> v,
     cursor     |-> cursor,
     limit      |-> limit,
     posts      |-> getPostsByIDs(page.items),
     nextCursor |-> page.nextCursor,
     hasMore    |-> page.hasMore,
     path       |-> "cache",
     seq        |-> requests + 1]

\* getFeedByPullMode: the response built from the rows GetPostsByUserIDs gave
PullResponse(v, cursor, limit, rows) ==
    LET hasMore == Len(rows) > limit
        page    == IF hasMore THEN SubSeq(rows, 1, limit) ELSE rows
    IN  [viewer     |-> v,
         cursor     |-> cursor,
         limit      |-> limit,
         posts      |-> page,
         nextCursor |-> IF Len(page) > 0
                        THEN FormatRFC3339Nano(posts[Last(page)].createdAt)
                        ELSE EmptyCursor,
         hasMore    |-> hasMore,
         path       |-> "pull",
         seq        |-> requests + 1]

\* the response of a GetFeed call that returned an error
ErrorResponse(v, cursor, limit) ==
    [viewer     |-> v,
     cursor     |-> cursor,
     limit      |-> limit,
     posts      |-> <<>>,
     nextCursor |-> EmptyCursor,
     hasMore    |-> FALSE,
     path       |-> "error",
     seq        |-> requests + 1]

\* what GetTimeline returns with its error: nil, "", false
FailedTimelineRead == [items |-> <<>>, nextCursor |-> EmptyCursor, hasMore |-> FALSE]

\* the errors a GetFeed call logged or returned
Logged(actOk, cacheOk, hydrateOk, dbOk) ==
    (IF actOk THEN {} ELSE {"activity"}) \cup (IF cacheOk THEN {} ELSE {"timeline"})
    \cup (IF hydrateOk THEN {} ELSE {"hydrate"}) \cup (IF dbOk THEN {} ELSE {"database"})

\* the cursors a client sends: none, or the one its last response carried
ClientCursors(v) ==
    {EmptyCursor} \cup (IF resp.viewer = v THEN {resp.nextCursor} ELSE {})

\* a variant of getFeedByPullMode that gives up with an error whenever it
\* is called
getFeedByPullModeFailing(v, cursor, limit, dbOk, logged) ==
    /\ resp' = ErrorResponse(v, cursor, limit) @@ [logged |-> logged]
    /\ UNCHANGED rebuilds

\* getFeedByPullMode.  dbOk: GetFollowing and GetPostsByUserIDs answered;
\* logged: the errors of the call so far
getFeedByPullMode(v, cursor, limit, dbOk, logged) ==
    IF ~dbOk
    THEN /\ resp' = ErrorResponse(v, cursor, limit) @@ [logged |-> logged]
         /\ UNCHANGED rebuilds
    ELSE \E following \in GetFollowing(v, 1000) :
         \E rows \in GetPostsByUserIDs(following \cup {v}, cursor, limit + 1) :
           LET r == PullResponse(v, cursor, limit, rows)
               job == [userID |-> v, posts |-> r.posts]
           IN  /\ job \in rebuilds \/ Cardinality(rebuilds) < MaxRebuilds
               /\ resp' = r @@ [logged |-> logged]
               /\ rebuilds' = rebuilds \cup {job}

\* GetFeed.  actOk: UpdateUserActivity succeeded (its error is logged);
\* cacheOk: the timeline range read answered (its error is logged and the
\* items are empty); hydrateOk: GetByIDs answered; dbOk: the follow and
\* post stores answered the pull-mode queries
GetFeed(v, limit) ==
    /\ requests < MaxRequests
    /\ requests' = requests + 1
    /\ \E cursor \in ClientCursors(v) :
       \E actOk, cacheOk, hydrateOk, dbOk \in BOOLEAN :
         LET page   == IF cacheOk THEN GetTimeline(timeline[v], cursor, limit)
                       ELSE FailedTimelineRead
             cached == Len(page.items) > 0
             logged == Logged(actOk, cacheOk, hydrateOk, dbOk)
         IN  \* a call that is not made does not fail
             /\ ~cached => hydrateOk
             /\ (cached /\ hydrateOk) => dbOk
             /\ faults' = faults + Cardinality(logged)
             /\ faults' <= MaxFaults
             /\ IF cached /\ hydrateOk
                THEN /\ resp' = CacheResponse(v, cursor, limit, page) @@ [logged |-> logged]
                     /\ UNCHANGED rebuilds
                ELSE getFeedByPullMode(v, cursor, limit, dbOk, logged)
             /\ users' = IF actOk THEN [users EXCEPT ![v] = UpdatedUser(@, "view_feed")]
                         ELSE users
             /\ userActive' = IF actOk THEN [userActive EXCEPT ![v] = Nil]
                              ELSE userActive
    /\ UNCHANGED <<now, follows, posts, timeline, ttl, ledger, activeFollowers,
                   events, recovery>>
    /\ UNCHANGED busVars

\* rebuildTimelineCache, run by the goroutine getFeedByPullMode started.
\* dbOk: IsUserActive could read the user's row
rebuildTimelineCache(job) ==
    /\ job \in rebuilds
    /\ \E dbOk \in BOOLEAN :
         LET v        == job.userID
             z        == RebuildTimelineFromDB(job.posts)
             miss     == userActive[v] = Nil
             isActive == IF miss /\ ~dbOk THEN FALSE ELSE IsUserActive(v)
         IN  /\ faults' = faults + Failures(<<dbOk>>)
             /\ faults' <= MaxFaults
             /\ timeline' = [timeline EXCEPT ![v] = z]
             /\ ttl' = [ttl EXCEPT ![v] =
                          SetTimelineExpiration(z, Expire(z, @, "24h"), isActive)]
             /\ userActive' = [userActive EXCEPT ![v] =
                                 IF miss /\ ~dbOk THEN Nil ELSE CachedActive(v)]
    /\ rebuilds' = rebuilds \ {job}
    /\ UNCHANGED <<now, follows, users, posts, ledger, activeFollowers, events,
                   resp, requests, recovery>>
    /\ UNCHANGED busVars

\* ------------------------------------------------------------------------
\* OptimizedFeedHandler.UpdateUserActivity: the activity update followed by
\* CacheStrategyService.ApplyCacheStrategy.  dbOk: IsUserActive could read
\* the user's row
\* ------------------------------------------------------------------------
ApplyCacheStrategy(u, isActive) ==
    LET strategy == DetermineUserCacheStrategy(isActive)
        z        == timeline[u]
        trimmed  == IF ~strategy.isActive /\ ZCard(z) > strategy.maxTimelineItems
                    THEN trimUserTimeline(z, strategy.maxTimelineItems)
                    ELSE z
    IN  /\ timeline' = [timeline EXCEPT ![u] = trimmed]
        /\ ttl' = [ttl EXCEPT ![u] =
                     SetTimelineExpiration(z, @, strategy.isActive)]

UpdateUserActivity(u, activityType) ==
    /\ requests < MaxRequests
    /\ requests' = requests + 1
    /\ users' = [users EXCEPT ![u] = UpdatedUser(@, activityType)]
    /\ \E dbOk \in BOOLEAN :
         /\ faults' = faults + Failures(<<dbOk>>)
         /\ faults' <= MaxFaults
         \* the update has just deleted user_active:<u>
         /\ userActive' = [userActive EXCEPT ![u] =
                             IF ~dbOk THEN Nil
                             ELSE IF calculateUserActivity(users'[u]) THEN "1" ELSE "0"]
         /\ ApplyCacheStrategy(u, dbOk /\ calculateUserActivity(users'[u]))
    /\ UNCHANGED <<now, follows, posts, ledger, activeFollowers, events,
                   rebuilds, resp, recovery>>
    /\ UNCHANGED busVars

\* ------------------------------------------------------------------------
\* RecoveryService.RecoverPendingDistributions, as a cycle of the recovery
\* job that StartRecoveryJob runs at every tick of its ticker
\* ------------------------------------------------------------------------
RecoverPendingDistributions ==
    LET keys == scanKeys("distribution_status:*")
        st   == RecoverKeys([timeline |-> timeline, ttl |-> ttl, ledger |-> ledger],
                            keys)
    IN  /\ recovery.cycles < MaxCycles
        /\ Unix(now) >= RecoveryInterval * (recovery.cycles + 1)
        /\ timeline' = st.timeline
        /\ ttl' = st.ttl
        /\ ledger' = st.ledger
        /\ recovery' = [cycles |-> recovery.cycles + 1]
        /\ UNCHANGED <<now, follows, users, posts, activeFollowers, userActive,
                       events, rebuilds, resp, requests, faults>>
        /\ UNCHANGED busVars

\* ------------------------------------------------------------------------
\* FeedService.DeletePost (DELETE /posts/:id of cmd/api): GetByID finds the
\* post when it is not tombstoned, the caller must be its author, then
\* PostRepository.Delete sets is_deleted.  The Redis timelines are not
\* touched (DeleteByPostID works on the timelines table, clearFeedCache is
\* empty).
\* ------------------------------------------------------------------------
PostDeletedEvent(p) ==
    [type |-> "post_deleted", key |-> posts[p].userID, postID |-> p]

\* OptimizedFeedHandler.DeletePost (DELETE /posts/:id of the optimized
\* routes): the result and the stores after the call of user u for post p
OptimizedHandlerDeletePost(u, p, pubOk) ==
    [result |-> "ok", posts |-> posts, timeline |-> timeline, events |-> events]

\* FeedService.DeletePost: the result and the stores after the call of
\* user u for post p.  pubOk: the post_deleted event was published
FeedServiceDeletePost(u, p, pubOk) ==
    IF p \notin Live
    THEN [result |-> "not_found", posts |-> posts, timeline |-> timeline,
          events |-> events]
    ELSE IF posts[p].userID # u
    THEN [result |-> "permission_denied", posts |-> posts, timeline |-> timeline,
          events |-> events]
    ELSE [result   |-> "ok",
          posts    |-> [posts EXCEPT ![p].isDeleted = TRUE],
          timeline |-> timeline,
          events   |-> IF pubOk THEN Append(events, PostDeletedEvent(p))
                       ELSE events]

\* a FeedService.DeletePost call that returns no error
DeletePost(u, p) ==
    /\ Cardinality(Created \ Live) < MaxDeletes
    /\ \E pubOk \in BOOLEAN :
         LET out == FeedServiceDeletePost(u, p, pubOk)
         IN  /\ out.result = "ok"
             /\ faults' = faults + Failures(<<pubOk>>)
             /\ faults' <= MaxFaults
             /\ posts' = out.posts
             /\ events' = out.events
    \* timelineRepo.DeleteByPostID
    /\ timelines' = {row \in timelines : row[2] # p}
    /\ UNCHANGED <<now, follows, users, timeline, ttl, ledger, activeFollowers,
                   userActive, rebuilds, resp, requests, recovery>>
    /\ UNCHANGED <<userEvents, reader, workers, handled, unfollowed, feedCache>>

\* ------------------------------------------------------------------------
\* Specification
\* ------------------------------------------------------------------------
Next ==
    \/ Tick
    \/ Elapse
    \/ \E u \in Authors : CreatePost(u)
    \/ \E p \in PostIDs : Distribute(p)
    \/ \E v \in Viewers, limit \in Limits : GetFeed(v, limit)
    \/ \E job \in rebuilds : rebuildTimelineCache(job)
    \/ \E u \in Viewers : UpdateUserActivity(u, "login")
    \/ RecoverPendingDistributions

Spec == Init /\ [][Next]_vars

\* ------------------------------------------------------------------------
\* Store-level specification: TimelineCacheService called directly, in any
\* order, for the posts of a posts table
\* ------------------------------------------------------------------------
StoreInit ==
    /\ now = MaxTime + TicksPerSecond
    /\ follows = {<<"b", "a">>, <<"c", "a">>}
    /\ users = [u \in Users |->
                  [followers     |-> Cardinality({e \in follows : e[2] = u}),
                   isOnline      |-> FALSE,
                   activityScore |-> 0,
                   lastActiveAt  |-> <<>>]]
    /\ \E at \in [StoreIDs -> {0, MaxTime}] :
         /\ posts = [p \in StoreIDs |->
                       [userID          |-> "a",
                        createdAt       |-> at[p],
                        isDeleted       |-> FALSE,
                        state           |-> "returned",
                        authorFollowers |-> 2,
                        followers       |-> {},
                        audience        |-> {},
                        writesOk        |-> FALSE]]
    /\ timeline = [u \in Users |-> {}]
    /\ ttl = [u \in Users |-> Nil]
    /\ ledger = [p \in StoreIDs |-> NoRecord]
    /\ activeFollowers = [u \in Users |-> <<>>]
    /\ userActive = [u \in Users |-> Nil]
    /\ events = <<>>
    /\ rebuilds = {}
    /\ resp = NoResp
    /\ requests = 0
    /\ recovery = [cycles |-> 0]
    /\ faults = 0
    /\ IdleBus

\* AddToTimeline(userID, postID, post.CreatedAt)
AddToTimeline(u, p) ==
    LET tl == AddToOwners(timeline, {u}, p, posts[p].createdAt)
    IN  /\ timeline' = tl
        /\ ttl' = ExpireOwners(tl, ttl, {u}, "24h")
        /\ UNCHANGED <<now, follows, users, posts, ledger, activeFollowers,
                       userActive, events, rebuilds, resp, requests, recovery,
                       faults>>
        /\ UNCHANGED busVars

\* BatchAddToTimeline(userIDs, postID, post.CreatedAt), the pipeline applied
BatchAddToTimeline(userIDs, p) ==
    LET tl == AddToOwners(timeline, userIDs, p, posts[p].createdAt)
    IN  /\ timeline' = tl
        /\ ttl' = ExpireOwners(tl, ttl, userIDs, "24h")
        /\ UNCHANGED <<now, follows, users, posts, ledger, activeFollowers,
                       userActive, events, rebuilds, resp, requests, recovery,
                       faults>>
        /\ UNCHANGED busVars

\* GetTimeline(userID, cursor, limit) with no cursor or with the cursor the
\* last call for this owner returned; resp is the call and its result
ReadTimeline(u, limit) ==
    /\ \E cursor \in ClientCursors(u) :
         LET page == GetTimeline(timeline[u], cursor, limit)
         IN  resp' = [viewer     |-> u,
                      cursor     |-> cursor,
                      limit      |-> limit,
                      items      |-> page.items,
                      nextCursor |-> page.nextCursor,
                      hasMore    |-> page.hasMore]
    /\ UNCHANGED <<now, follows, users, posts, timeline, ttl, ledger,
                   activeFollowers, userActive, events, rebuilds, requests,
                   recovery, faults>>
    /\ UNCHANGED busVars

StoreNext ==
    \/ \E u \in StoreOwners, p \in StoreIDs : AddToTimeline(u, p)
    \/ \E p \in StoreIDs : BatchAddToTimeline(StoreOwners, p)
    \/ \E u \in StoreOwners, limit \in Limits : ReadTimeline(u, limit)

StoreSpec == StoreInit /\ [][StoreNext]_vars

\* ------------------------------------------------------------------------
\* Cap-level specification: posts created at any tick are added to the
\* timelines of the viewers, in any order, and the timelines are read
\* ------------------------------------------------------------------------
CapInit ==
    \* the last post was created in the current second or in the one before
    /\ now \in {MaxTime, MaxTime + TicksPerSecond}
    /\ follows = {<<"b", "a">>, <<"c", "a">>}
    /\ users = [u \in Users |->
                  [followers     |-> Cardinality({e \in follows : e[2] = u}),
                   isOnline      |-> FALSE,
                   activityScore |-> 0,
                   lastActiveAt  |-> <<>>]]
    /\ \E at \in [StoreIDs -> 0..MaxTime] :
         posts = [p \in StoreIDs |->
                    [userID          |-> "a",
                     createdAt       |-> at[p],
                     isDeleted       |-> FALSE,
                     state           |-> "returned",
                     authorFollowers |-> 2,
                     followers       |-> {},
                     audience        |-> {},
                     writesOk        |-> FALSE]]
    /\ timeline = [u \in Users |-> {}]
    /\ ttl = [u \in Users |-> Nil]
    /\ ledger = [p \in StoreIDs |-> NoRecord]
    /\ activeFollowers = [u \in Users |-> <<>>]
    /\ userActive = [u \in Users |-> Nil]
    /\ events = <<>>
    /\ rebuilds = {}
    /\ resp = NoResp
    /\ requests = 0
    /\ recovery = [cycles |-> 0]
    /\ faults = 0
    /\ IdleBus

CapNext ==
    \/ \E u \in Viewers, p \in StoreIDs : AddToTimeline(u, p)
    \/ \E p \in StoreIDs : BatchAddToTimeline(Viewers, p)
    \/ \E u \in Viewers, limit \in Limits : ReadTimeline(u, limit)

CapSpec == CapInit /\ [][CapNext]_vars

\* ------------------------------------------------------------------------
\* Activity-level specification: ActivityService.UpdateUserActivity called
\* through its handler, alone or by two requests at once, for a viewer
\* whose row holds any score and any time of last activity
\* ------------------------------------------------------------------------
\* a day, in seconds
Day == 86400

\* the times, in seconds, that pass between two requests
Ages == {OnlineUserCacheTTL + 1, Day, ActiveWindow + Day}

\* the viewer's score when the behaviour starts
InitialScores == {0, ActiveUserScoreThreshold - 1, MaxActivityScore - 10,
                  MaxActivityScore}

ActivityTypes == {"login", "post", "view_feed"}

ActivityInit ==
    /\ now = 0
    /\ follows = {<<"b", "a">>, <<"c", "a">>}
    /\ \E score \in InitialScores :
       \E last \in {<<>>, <<now>>} :
         \* a row that was never updated has no score
         /\ last = <<>> => score = 0
         /\ users = [u \in Users |->
                       IF u \in Viewers
                       THEN [followers     |-> 0,
                             \* set with LastActiveAt and never reset
                             isOnline      |-> last # <<>>,
                             activityScore |-> score,
                             lastActiveAt  |-> last]
                       ELSE [followers     |-> Cardinality({e \in follows : e[2] = u}),
                             isOnline      |-> FALSE,
                             activityScore |-> 0,
                             lastActiveAt  |-> <<>>]]
    /\ posts = [p \in PostIDs |-> NoPost]
    /\ timeline = [u \in Users |-> {}]
    /\ ttl = [u \in Users |-> Nil]
    /\ ledger = [p \in PostIDs |-> NoRecord]
    /\ activeFollowers = [u \in Users |-> <<>>]
    /\ userActive = [u \in Users |-> Nil]
    /\ events = <<>>
    /\ rebuilds = {}
    /\ resp = NoResp
    /\ requests = 0
    /\ recovery = [cycles |-> 0]
    /\ faults = 0
    /\ IdleBus

\* time passes, once in a behaviour
Pass(age) ==
    /\ now = 0
    /\ now' = now + age * TicksPerSecond
    /\ UNCHANGED <<follows, users, posts, timeline, ttl, ledger, activeFollowers,
                   userActive, events, rebuilds, resp, requests, recovery, faults>>
    /\ UNCHANGED busVars

\* two UpdateUserActivity calls for user u at once: both read the row
\* before either writes; the row is the one the last writer wrote
ConcurrentUpdateUserActivity(u, type1, type2) ==
    /\ requests + 2 <= MaxRequests
    /\ requests' = requests + 2
    /\ \E last \in {type1, type2} :
         users' = [users EXCEPT ![u] = UpdatedUser(@, last)]
    /\ userActive' = [userActive EXCEPT ![u] = Nil]
    /\ UNCHANGED <<now, follows, posts, timeline, ttl, ledger, activeFollowers,
                   events, rebuilds, resp, recovery, faults>>
    /\ UNCHANGED busVars

ActivityNext ==
    \/ \E age \in Ages : Pass(age)
    \/ \E u \in Viewers, type \in ActivityTypes : UpdateUserActivity(u, type)
    \/ \E u \in Viewers, type1, type2 \in ActivityTypes :
          ConcurrentUpdateUserActivity(u, type1, type2)

ActivitySpec == ActivityInit /\ [][ActivityNext]_vars

\* ------------------------------------------------------------------------
\* Read-level specification: a viewer reads the feed, its timeline is
\* rebuilt and the author deletes posts, after the posts of the author
\* were published and pushed to any part of the viewer's timeline
\* ------------------------------------------------------------------------
ReadInit ==
    /\ now = MaxTime + TicksPerSecond
    /\ follows = {<<"b", "a">>, <<"c", "a">>}
    /\ users = [u \in Users |->
                  [followers     |-> Cardinality({e \in follows : e[2] = u}),
                   isOnline      |-> FALSE,
                   activityScore |-> 0,
                   lastActiveAt  |-> <<>>]]
    /\ \E at \in [PostIDs -> {0, MaxTime}] :
         posts = [p \in PostIDs |->
                    [userID          |-> "a",
                     createdAt       |-> at[p],
                     isDeleted       |-> FALSE,
                     state           |-> "returned",
                     authorFollowers |-> 2,
                     followers       |-> {"b", "c"},
                     audience        |-> {"b", "c"},
                     writesOk        |-> FALSE]]
    /\ \E pushed \in SUBSET PostIDs :
         /\ Cardinality(pushed) <= MaxTimelineSize
         /\ timeline = [u \in Users |->
                          IF u \in Viewers
                          THEN {[member |-> p, score |-> Unix(posts[p].createdAt)] :
                                  p \in pushed}
                          ELSE {}]
    /\ ttl = [u \in Users |-> Expire(timeline[u], Nil, "24h")]
    /\ ledger = [p \in PostIDs |-> NoRecord]
    /\ activeFollowers = [u \in Users |-> <<>>]
    /\ userActive = [u \in Users |-> Nil]
    /\ events = <<>>
    /\ rebuilds = {}
    /\ resp = NoResp
    /\ requests = 0
    /\ recovery = [cycles |-> 0]
    /\ faults = 0
    /\ IdleBus

ReadNext ==
    \/ \E u \in Authors, p \in PostIDs : DeletePost(u, p)
    \/ \E v \in Viewers, limit \in Limits : GetFeed(v, limit)
    \/ \E job \in rebuilds : rebuildTimelineCache(job)

ReadSpec == ReadInit /\ [][ReadNext]_vars

\* ------------------------------------------------------------------------
\* UserService.Unfollow.  The service is built on userEventsProducer, so
\* its events go to the user-events topic.
\* ------------------------------------------------------------------------
FollowDeletedEvent(follower, following) ==
    [type |-> "follow_deleted", key |-> follower,
     followerID |-> follower, followingID |-> following]

\* an Unfollow call that returns no error.  countOk: the followers count was
\* updated; pubOk: the event was published (both errors are only logged).
\* models.Follow has a DeletedAt field, so followRepo.Delete sets deleted_at
\* on the row and leaves it in the table
Unfollow(follower, following) ==
    /\ <<follower, following>> \in follows
    /\ follows' = follows \ {<<follower, following>>}
    /\ unfollowed' = unfollowed \cup {<<follower, following>>}
    /\ \E countOk, pubOk \in BOOLEAN :
         /\ faults' = faults + Failures(<<countOk, pubOk>>)
         /\ faults' <= MaxFaults
         /\ users' = IF countOk
                     THEN [users EXCEPT ![following].followers = @ - 1]
                     ELSE users
         /\ userEvents' = IF pubOk
                          THEN Append(userEvents,
                                      FollowDeletedEvent(follower, following))
                          ELSE userEvents
    /\ UNCHANGED <<now, posts, timeline, ttl, ledger, activeFollowers, userActive,
                   events, rebuilds, resp, requests, recovery>>
    /\ UNCHANGED <<timelines, reader, workers, handled, feedCache>>

FollowCreatedEvent(follower, following) ==
    [type |-> "follow_created", key |-> follower,
     followerID |-> follower, followingID |-> following]

\* ------------------------------------------------------------------------
\* The workers' handlers.  A handler's result is whether it returned nil
\* and the stores it leaves.
\* ------------------------------------------------------------------------
\* PostRepository.GetByUserID(userID, 0, limit): the user's rows with
\* is_deleted = false, newest first, at most limit of them
GetByUserID(userID, limit) ==
    LET own == {p \in DOMAIN posts :
                  /\ posts[p] # NoPost
                  /\ posts[p].userID = userID
                  /\ ~posts[p].isDeleted}
        Before(q, p) == \/ posts[q].createdAt > posts[p].createdAt
                        \/ posts[q].createdAt = posts[p].createdAt /\ q < p
    IN  {p \in own : Cardinality({q \in own : Before(q, p)}) < limit}

\* FeedWorker.handleFollowDeleted: the rows of the followee's recent posts
\* leave the follower's part of the timelines table (a failed delete is
\* logged); clearUserFeedCache only logs; the sorted set timeline:<follower>
\* is not written
handleFollowDeleted(e, dbOk) ==
    IF ~dbOk
    THEN [ok |-> FALSE, timelines |-> timelines, timeline |-> timeline]
    ELSE [ok        |-> TRUE,
          timelines |-> {row \in timelines :
                           ~(/\ row[1] = e.followerID
                             /\ row[2] \in GetByUserID(e.followingID,
                                                       UnfollowPurgeLimit))},
          timeline  |-> timeline]

\* the rows of the timelines table for user and post.  The table's key is
\* a generated id and idx_user_post is not unique, so there can be several;
\* the third component of a row tells them apart
RowsOf(rows, user, post) == {row \in rows : row[1] = user /\ row[2] = post}

\* TimelineRepository.CreateBatch: an INSERT of one row per post
CreateBatch(rows, user, postIDs) ==
    rows \cup {<<user, p, Cardinality(RowsOf(rows, user, p)) + 1>> : p \in postIDs}

\* FeedWorker.handleFollowCreated: rows for the followee's most recent
\* posts are inserted for the follower; clearUserFeedCache only logs; the
\* sorted set timeline:<follower> is not written
handleFollowCreated(e, dbOk) ==
    IF ~dbOk
    THEN [ok |-> FALSE, timelines |-> timelines, timeline |-> timeline]
    ELSE [ok        |-> TRUE,
          timelines |-> CreateBatch(timelines, e.followerID,
                                    GetByUserID(e.followingID, BackfillLimit)),
          timeline  |-> timeline]

\* FeedWorker.handlePostDeleted
handlePostDeleted(e, dbOk) ==
    IF ~dbOk
    THEN [ok |-> FALSE, timelines |-> timelines, timeline |-> timeline]
    ELSE [ok        |-> TRUE,
          timelines |-> {row \in timelines : row[2] # e.postID},
          timeline  |-> timeline]

\* the handler FeedWorker.Start subscribes
FeedWorkerHandler(e, dbOk) ==
    CASE e.type = "post_deleted"   -> handlePostDeleted(e, dbOk)
      [] e.type = "follow_created" -> handleFollowCreated(e, dbOk)
      [] e.type = "follow_deleted" -> handleFollowDeleted(e, dbOk)
      \* handlePostCreated only logs; an unknown type is logged
      [] OTHER -> [ok |-> TRUE, timelines |-> timelines, timeline |-> timeline]

\* OptimizedFeedWorker.handleMessage: Subscribe hands the handler the decoded
\* JSON value, which is not a []byte, and its %v form is not JSON, so every
\* message ends in the unmarshal error
handleMessage(e, dbOk) ==
    [ok |-> FALSE, timelines |-> timelines, timeline |-> timeline]

\* the handler that worker w passed to Subscribe
HandlerOf(w, e, dbOk) ==
    IF w = "FeedWorker" THEN FeedWorkerHandler(e, dbOk) ELSE handleMessage(e, dbOk)

\* ------------------------------------------------------------------------
\* KafkaConsumer.Subscribe, run by both workers on the one reader.  The
\* reader has a GroupID, so ReadMessage queues the commit of the message it
\* returns; the queue is flushed every CommitInterval.
\* ------------------------------------------------------------------------
\* c.reader.ReadMessage(ctx) in the loop of worker w, and the handler begins
ReadMessage(w) ==
    /\ workers[w] = 0
    /\ reader.offset < Len(events)
    /\ reader' = [reader EXCEPT !.offset = @ + 1]
    /\ workers' = [workers EXCEPT ![w] = reader.offset + 1]
    /\ UNCHANGED <<now, follows, users, posts, timeline, ttl, ledger,
                   activeFollowers, userActive, events, rebuilds, resp, requests,
                   recovery, faults>>
    /\ UNCHANGED <<timelines, userEvents, handled, unfollowed, feedCache>>

\* the handler of worker w returns; on an error Subscribe prints it and
\* continues with the next ReadMessage
Handle(w) ==
    /\ workers[w] # 0
    /\ \E dbOk \in BOOLEAN :
         LET out == HandlerOf(w, events[workers[w]], dbOk)
         IN  /\ faults' = faults + Failures(<<dbOk>>)
             /\ faults' <= MaxFaults
             /\ timelines' = out.timelines
             /\ timeline' = out.timeline
             /\ handled' = handled \cup {[worker |-> w,
                                           offset |-> workers[w],
                                           ok     |-> out.ok]}
    /\ workers' = [workers EXCEPT ![w] = 0]
    /\ UNCHANGED <<now, follows, users, posts, ttl, ledger, activeFollowers,
                   userActive, events, rebuilds, resp, requests, recovery>>
    /\ UNCHANGED <<userEvents, reader, unfollowed, feedCache>>

\* the commit loop of the reader flushes the queued commits
Commit ==
    /\ reader.committed < reader.offset
    /\ reader' = [reader EXCEPT !.committed = reader.offset]
    /\ UNCHANGED <<now, follows, users, posts, timeline, ttl, ledger,
                   activeFollowers, userActive, events, rebuilds, resp, requests,
                   recovery, faults>>
    /\ UNCHANGED <<timelines, userEvents, workers, handled, unfollowed, feedCache>>

\* the process stops and starts again: the group's reader resumes at the
\* committed offset and both loops start afresh
Restart ==
    /\ recovery.cycles < MaxRestarts
    /\ recovery' = [cycles |-> recovery.cycles + 1]
    /\ reader' = [reader EXCEPT !.offset = reader.committed]
    /\ workers' = [w \in Workers |-> 0]
    /\ UNCHANGED <<now, follows, users, posts, timeline, ttl, ledger,
                   activeFollowers, userActive, events, rebuilds, resp, requests,
                   faults>>
    /\ UNCHANGED <<timelines, userEvents, handled, unfollowed, feedCache>>

\* ------------------------------------------------------------------------
\* Specification of the event consumer: the posts of the author were
\* published (their post_created events are on the topic) and pushed to any
\* part of the viewer's timeline; rows of the timelines table exist for any
\* of them
\* ------------------------------------------------------------------------
BusInit ==
    /\ now = MaxTime + TicksPerSecond
    /\ follows = {<<"b", "a">>, <<"c", "a">>}
    /\ users = [u \in Users |->
                  [followers     |-> Cardinality({e \in follows : e[2] = u}),
                   isOnline      |-> FALSE,
                   activityScore |-> 0,
                   lastActiveAt  |-> <<>>]]
    /\ posts = [p \in PostIDs |->
                  [userID          |-> "a",
                   createdAt       |-> p - 1,
                   isDeleted       |-> FALSE,
                   state           |-> "returned",
                   authorFollowers |-> 2,
                   followers       |-> {"b", "c"},
                   audience        |-> {"b", "c"},
                   writesOk        |-> FALSE]]
    /\ \E pushed \in SUBSET PostIDs :
         /\ Cardinality(pushed) <= MaxTimelineSize
         /\ timeline = [u \in Users |->
                          IF u \in Viewers
                          THEN {[member |-> p, score |-> Unix(posts[p].createdAt)] :
                                  p \in pushed}
                          ELSE {}]
    /\ ttl = [u \in Users |-> Expire(timeline[u], Nil, "24h")]
    /\ ledger = [p \in PostIDs |-> NoRecord]
    /\ activeFollowers = [u \in Users |-> <<>>]
    /\ userActive = [u \in Users |-> Nil]
    /\ events = [p \in PostIDs |-> PostCreatedEvent(p)]
    /\ rebuilds = {}
    /\ resp = NoResp
    /\ requests = 0
    /\ recovery = [cycles |-> 0]
    /\ faults = 0
    /\ timelines \in SUBSET (Viewers \X PostIDs \X {1})
    /\ userEvents = <<>>
    /\ reader = [offset |-> 0, committed |-> 0]
    /\ workers = [w \in Workers |-> 0]
    /\ handled = {}
    /\ unfollowed = {}
    /\ feedCache = {}

BusNext ==
    \/ \E follower \in Viewers, following \in Authors : Unfollow(follower, following)
    \/ \E u \in Authors, p \in PostIDs : DeletePost(u, p)
    \/ \E w \in Workers : ReadMessage(w)
    \/ \E w \in Workers : Handle(w)
    \/ Commit
    \/ Restart

BusSpec == BusInit /\ [][BusNext]_vars

\* ------------------------------------------------------------------------
\* Vocabulary of the properties
\* ------------------------------------------------------------------------
\* the sorted-set entry of post p
Entry(p) == [member |-> p, score |-> Unix(posts[p].createdAt)]

Holds(tl, u, p) == p \in ZMembers(tl[u])

Author(p) == posts[p].userID

\* the step is the fan-out of post p (CreatePost's distribution and return)
FanOutStep(p) ==
    /\ p \in Created
    /\ posts[p].state = "created"
    /\ posts'[p].state # "created"

\* the step is a recovery cycle
RecoveryCycleStep == recovery'.cycles = recovery.cycles + 1

\* RECOVERY_TIMEOUT has passed since post p was published
TimedOut(p) == Unix(now) - Unix(posts[p].createdAt) >= RecoveryTimeout

CompletedStatuses == {"influencer_push_completed", "regular_push_completed"}

\* ------------------------------------------------------------------------
\* Properties
\* ------------------------------------------------------------------------
\* C1 (eventual delivery): once a post's fan-out has ended, by returning or
\* by a crash, and RECOVERY_TIMEOUT has passed, a recovery cycle leaves the
\* post in the timeline of every follower the distributor listed for it.
C1_EventualDelivery ==
    [][\A p \in Created :
          (RecoveryCycleStep /\ posts[p].state # "created" /\ TimedOut(p))
          => \A f \in posts[p].followers : Holds(timeline', f, p)]_vars

\* C2 (author self-write): a post whose publish has returned with every
\* listing and write of its fan-out successful is in its author's timeline
\* at the moment of the return, in either distribution mode.
C2_AuthorSelfWrite ==
    [][\A p \in Created :
          (FanOutStep(p) /\ posts'[p].state = "returned" /\ posts'[p].writesOk)
          => Holds(timeline', Author(p), p)]_vars

\* C3 (push-to-all): the fan-out of an author with at most PUSH_THRESHOLD
\* followers, when its listing and writes succeed, leaves the entry
\* (post_id, created_at epoch) in the timeline of every follower of the
\* author and of the author.
C3_PushToAll ==
    [][\A p \in Created :
          (FanOutStep(p) /\ ~IsInfluencer(p) /\ posts'[p].writesOk)
          => \A u \in Followers(Author(p)) \cup {Author(p)} :
                Entry(p) \in timeline'[u]]_vars

\* C4 (push-to-active): the fan-out of an author with more than
\* PUSH_THRESHOLD followers, when its writes succeed, writes the post to
\* the timelines of the active followers (at most HOT_ACTIVE_LIMIT of them)
\* and changes no other follower's timeline.
C4_PushToActive ==
    [][\A p \in Created :
          (/\ FanOutStep(p) /\ IsInfluencer(p) /\ posts'[p].writesOk
           /\ Cardinality(ActiveFollowers(Author(p))) <= HotActiveLimit)
          => \A f \in Followers(Author(p)) :
                IF f \in ActiveFollowers(Author(p))
                THEN Entry(p) \in timeline'[f]
                ELSE timeline'[f] = timeline[f]]_vars

\* the step is a first-page feed read by viewer v that was answered
FirstPageRead(v) ==
    /\ requests' = requests + 1
    /\ resp' # resp
    /\ resp'.viewer = v
    /\ resp'.path # "error"
    /\ resp'.cursor = EmptyCursor

\* post p is the one newest post among those of v and of the users v follows
Newest(v, p) ==
    /\ p \in Live
    /\ Author(p) \in Following(v) \cup {v}
    /\ \A q \in Live \ {p} :
          Author(q) \in Following(v) \cup {v} => posts[q].createdAt < posts[p].createdAt

\* C5 (lazy delivery): the next first-page read of a follower returns the
\* newest post of an influencer the follower follows when that post was
\* not pushed to the follower's timeline.
C5_LazyDelivery ==
    [][\A v \in Viewers : \A p \in Created :
          (/\ FirstPageRead(v)
           /\ posts[p].state = "returned" /\ IsInfluencer(p)
           /\ Newest(v, p)
           /\ ~Holds(timeline, v, p))
          => p \in SeqToSet(resp'.posts)]_vars

\* C7 (P4 recovery completeness): after a crash in the middle of a fan-out,
\* a recovery cycle that runs once RECOVERY_TIMEOUT has passed leaves the
\* post's ledger record completed and the post in the timeline of every
\* follower the distributor listed.
C7_RecoveryCompleteness ==
    [][\A p \in Created :
          (RecoveryCycleStep /\ posts[p].state = "crashed" /\ TimedOut(p))
          => /\ ledger'[p].status \in CompletedStatuses
             /\ \A f \in posts[p].followers : Holds(timeline', f, p)]_vars

\* C8 (I5): every post whose ledger record is completed is tombstoned or is
\* in the timeline of every follower the distribution policy selected for
\* it (all followers in push-to-all, the active ones in push-to-active).
C8_CompletedRecordsDelivered ==
    \A p \in Created :
        ledger[p].status \in CompletedStatuses
        => \/ p \notin Live
           \/ \A f \in posts[p].audience : Holds(timeline, f, p)

\* the cap of the class of user u (the VIP test is not implemented)
ClassCap(u) ==
    IF calculateUserActivity(users[u]) THEN MaxTimelineItemsActive
    ELSE MaxTimelineItemsInactive

\* C9 (P2 cap respected): no timeline holds more entries than the cap of
\* its owner's class.
C9_CapRespected == \A u \in Users : ZCard(timeline[u]) <= ClassCap(u)

\* ------------------------------------------------------------------------
\* Properties of the store-level specification
\* ------------------------------------------------------------------------
\* the timelines after distribute(p) wrote to the owners in userIDs
FanOut(tl, userIDs, p) == AddToOwners(tl, userIDs, p, posts[p].createdAt)

\* the entries of timeline z with member p
EntriesOf(z, p) == {e \in z : e.member = p}

\* the entries of other posts that rank above post p's entry in z
Above(z, p) == {e \in z : e.member # p /\ ZLess(Entry(p), e)}

\* C6 (P1 idempotent fan-out), as the source has it: running the fan-out
\* of post P a second time leaves the store as the first run left it, with
\* at most one (F, P) entry for every owner F written to; the entry is
\* there exactly when fewer than MaxTimelineSize resident entries rank above
\* it, otherwise the cap evicts it in the same write.
C6_IdempotentFanOut ==
    \A p \in StoreIDs :
        LET once  == FanOut(timeline, StoreOwners, p)
            twice == FanOut(once, StoreOwners, p)
        IN  /\ twice = once
            /\ \A f \in StoreOwners :
                  /\ EntriesOf(twice[f], p) \subseteq {Entry(p)}
                  /\ Entry(p) \in twice[f]
                       <=> Cardinality(Above(timeline[f], p)) < MaxTimelineSize

\* C6 witness: an owner's timeline is full and holds post P from an earlier
\* fan-out, and the fan-out of P run again leaves it as it is.
C6_Witness ==
    \E p \in StoreIDs, f \in StoreOwners :
        /\ Entry(p) \in timeline[f]
        /\ ZCard(timeline[f]) = MaxTimelineSize
        /\ FanOut(timeline, StoreOwners, p)[f] = timeline[f]

\* C6 as stated: after the fan-out of post P, run once or again, every
\* owner written to has exactly one (F, P) entry.
C6_ExactlyOneEntry ==
    \A p \in StoreIDs : \A f \in StoreOwners :
        Cardinality(EntriesOf(FanOut(FanOut(timeline, StoreOwners, p),
                                     StoreOwners, p)[f], p)) = 1

\* the step reads the page after the one in resp, from an unchanged cursor
NextPageRead ==
    /\ resp # NoResp
    /\ resp' # resp
    /\ resp'.viewer = resp.viewer
    /\ resp.hasMore
    /\ resp'.cursor = resp.nextCursor

\* the entries of z that rank below entry e
Below(z, e) == {x \in z : ZLess(x, e)}

\* C10 (P3 cursor monotonicity): the page read with the cursor of the
\* previous page has a strictly smaller cursor, shares no entry with the
\* previous page, is in descending order, and starts at the resident entry
\* next below the previous page's last entry, so that no entry is skipped.
C10_CursorMonotonicity ==
    [][NextPageRead =>
         LET z     == timeline[resp.viewer]
             first == resp.items
             next  == resp'.items
             rest  == Below(z, Last(first))
         IN  /\ Len(next) > 0 => resp'.nextCursor.val < resp.nextCursor.val
             /\ SeqToSet(first) \cap SeqToSet(next) = {}
             /\ \A i, j \in 1..Len(next) : i < j => ZLess(next[j], next[i])
             /\ Last(first) \in z =>
                  /\ Len(next) = Min(resp'.limit, Cardinality(rest))
                  /\ \A i \in 1..Len(next) :
                        /\ next[i] \in rest
                        /\ Cardinality({x \in rest : ZLess(next[i], x)}) = i - 1]_vars

\* ------------------------------------------------------------------------
\* Properties of the read path
\* ------------------------------------------------------------------------
\* the step answers a get_feed call of viewer v
FeedRead(v) == resp' # resp /\ resp'.viewer = v /\ resp'.seq = requests'

\* what remains beyond the page in resp': for a page of the timeline store
\* the resident entries that rank below the page's last entry, for a
\* pull-mode page the live posts of the followed users and the viewer that
\* are not in the page and not newer than its last post
RemainingBeyondPage(v) ==
    IF resp'.path = "cache"
    THEN LET page == GetTimeline(timeline[v], resp'.cursor, resp'.limit)
         IN  Below(timeline[v], Last(page.items))
    ELSE IF Len(resp'.posts) = 0 THEN {}
    ELSE {q \in Live \ SeqToSet(resp'.posts) :
             /\ Author(q) \in Following(v) \cup {v}
             /\ posts[q].createdAt <= posts[Last(resp'.posts)].createdAt}

\* C11 (end of paging): a page beyond which no entry remains has
\* has_more = false and an empty next_cursor, for pages of the timeline
\* store and for pull-mode pages.
C11_EndOfPaging ==
    [][\A v \in Viewers :
          (FeedRead(v) /\ RemainingBeyondPage(v) = {})
          => /\ ~resp'.hasMore
             /\ resp'.nextCursor = EmptyCursor]_vars

\* the step is a get_feed call of the viewer of resp that passes the
\* next_cursor resp carried
NextFeedPageRead ==
    /\ resp # NoResp
    /\ FeedRead(resp.viewer)
    /\ resp.nextCursor # EmptyCursor
    /\ resp'.cursor = resp.nextCursor

\* post q is strictly older than the position a cursor names: the score
\* (whole seconds) of a timeline cursor, the creation time of a pull-mode one
OlderThanCursor(q, cursor) ==
    IF cursor.kind = "epoch" THEN Unix(posts[q].createdAt) < cursor.val
    ELSE posts[q].createdAt < cursor.val

\* C12 (get_feed paging end to end): a get_feed call that passes the
\* next_cursor of the previous response returns only posts strictly older
\* than that cursor and none of the posts the previous response returned,
\* whether either page came from the timeline store or from pull-mode.
C12_FeedPagingEndToEnd ==
    [][NextFeedPageRead =>
         /\ \A q \in SeqToSet(resp'.posts) : OlderThanCursor(q, resp.nextCursor)
         /\ SeqToSet(resp'.posts) \cap SeqToSet(resp.posts) = {}]_vars

\* C13 (tombstones hidden): a get_feed response never holds a post that is
\* tombstoned when the feed is read, whether the page comes from the
\* timeline store or from pull-mode.
C13_TombstonesHidden ==
    [][\A v \in Viewers :
          FeedRead(v) => \A q \in SeqToSet(resp'.posts) : ~posts[q].isDeleted]_vars

\* C13 witness: a page read from the timeline store came back without
\* posts, that is, the entries of the page were all of tombstoned posts
\* (a timeline entry is always of a created post).
C13_Witness ==
    /\ resp # NoResp
    /\ resp.path = "cache"
    /\ resp.posts = <<>>
    /\ \E p \in Created \ Live : Holds(timeline, resp.viewer, p)

\* ------------------------------------------------------------------------
\* Properties of the publish path
\* ------------------------------------------------------------------------
\* the post_created event of post p is on the topic
Published(p) == \E i \in 1..Len(events) : events[i] = PostCreatedEvent(p)

\* C14 (publish masks downstream failures): once the post's row is written,
\* a publish call that runs to its end returns the post, also when the
\* follower listing, timeline writes, the ledger write or the event
\* publication failed.
C14_PublishMasksFailures ==
    [][\A p \in PostIDs :
          (FanOutStep(p) /\ posts'[p].state # "crashed")
          => posts'[p].state = "returned"]_vars

\* C14 witness: a post was returned although a write of its fan-out
\* failed, or although its post_created event was not published.
C14_Witness ==
    \E p \in Created :
        /\ posts[p].state = "returned"
        /\ faults > 0
        /\ ~posts[p].writesOk \/ ~Published(p)

\* the response in resp' is a page pull-mode assembles for viewer v from the
\* post and follow stores
IsPullPage(v) ==
    /\ resp'.path = "pull"
    /\ \E rows \in GetPostsByUserIDs(Following(v) \cup {v}, resp'.cursor,
                                     resp'.limit + 1) :
         LET r == PullResponse(v, resp'.cursor, resp'.limit, rows)
         IN  /\ resp'.posts = r.posts
             /\ resp'.nextCursor = r.nextCursor
             /\ resp'.hasMore = r.hasMore

\* C15 (read availability), as the source has it: while the post and
\* follow stores answer, get_feed does not fail.  When the timeline range
\* read fails or returns no entries (or the hydration of a page fails) it
\* returns the page assembled by pull-mode; when the viewer's activity
\* update fails the error is logged and the page is the one get_feed
\* returns otherwise: the timeline page when the read returned entries,
\* the pull-mode page when it did not.
C15_ReadAvailability ==
    [][\A v \in Viewers :
          (FeedRead(v) /\ "database" \notin resp'.logged)
          => LET page == GetTimeline(timeline[v], resp'.cursor, resp'.limit)
             IN  IF \/ "timeline" \in resp'.logged
                    \/ "hydrate" \in resp'.logged
                    \/ Len(page.items) = 0
                 THEN IsPullPage(v)
                 ELSE /\ resp'.path = "cache"
                      /\ resp'.posts = getPostsByIDs(page.items)
                      /\ resp'.nextCursor = page.nextCursor
                      /\ resp'.hasMore = page.hasMore]_vars

\* C15 witness: the timeline range read of a viewer whose timeline holds
\* entries failed and the call returned a pull-mode page with posts.
C15_Witness ==
    /\ resp # NoResp
    /\ resp.path = "pull"
    /\ "timeline" \in resp.logged
    /\ resp.posts # <<>>
    /\ timeline[resp.viewer] # {}

\* C15 as stated: also when only the activity update failed, the page
\* get_feed returns is the one pull-mode assembles.
C15_PullPageOnAnyFailure ==
    [][\A v \in Viewers :
          (/\ FeedRead(v)
           /\ "database" \notin resp'.logged
           /\ \/ "timeline" \in resp'.logged
              \/ "activity" \in resp'.logged
              \/ Len(GetTimeline(timeline[v], resp'.cursor, resp'.limit).items) = 0)
          => IsPullPage(v)]_vars

\* ------------------------------------------------------------------------
\* Properties of the activity service
\* ------------------------------------------------------------------------
\* C16 (P5 activity bounded): the activity score stored for a user never
\* exceeds MaxActivityScore, whatever updates ran, alone or at once.
C16_ActivityBounded ==
    \A u \in Users : users[u].activityScore <= MaxActivityScore

\* C16 witness: an update of a user whose score was within an increment of
\* the maximum has just written the maximum.
C16_Witness ==
    \E u \in Viewers :
        /\ requests > 0
        /\ users[u].lastActiveAt = <<now>>
        /\ users[u].activityScore = MaxActivityScore

\* the score the decay rule gives an update of type activityType: the prior
\* score decayed over the time since the stored last activity, plus the
\* increment, limited to the maximum
DecayedUpdate(user, activityType) ==
    LET base == IF user.lastActiveAt = <<>> THEN user.activityScore
                ELSE Decay(user.activityScore, now - user.lastActiveAt[1])
    IN  Min(MaxActivityScore, base + getActivityIncrement(activityType))

\* C17 (decay on update): an activity update writes
\* min(MAX, prior * DECAY^(hours/24) + increment(kind)), the hours counted
\* from the last activity stored before the update, so that an update made
\* later adds to a smaller base.
C17_DecayOnUpdate ==
    [][\A u \in Viewers :
          (requests' = requests + 1 /\ users'[u].lastActiveAt = <<now>>)
          => \E type \in ActivityTypes :
                users'[u].activityScore = DecayedUpdate(users[u], type)]_vars

\* the user is online: its last action is less than OnlineUserCacheTTL ago
Online(user) ==
    /\ user.lastActiveAt # <<>>
    /\ now - user.lastActiveAt[1] < OnlineUserCacheTTL * TicksPerSecond

\* C18 (activeness predicate): a freshly computed is_active(u) is true
\* exactly when u is online (its last action less than ONLINE_TTL ago), or
\* its score is at least the threshold, or its last activity is less than
\* seven days ago.
C18_ActivenessPredicate ==
    \A u \in Users :
        calculateUserActivity(users[u])
        <=> \/ Online(users[u])
            \/ users[u].activityScore >= ActiveUserScoreThreshold
            \/ /\ users[u].lastActiveAt # <<>>
               /\ now - users[u].lastActiveAt[1] < ActiveWindow * TicksPerSecond

\* ------------------------------------------------------------------------
\* Properties of the cap-level specification
\* ------------------------------------------------------------------------
\* the entries an add of post p to timeline z evicts
Evicted(z, p) == (z \cup {Entry(p)}) \ AddEntry(z, p, posts[p].createdAt)

\* C19 (cap eviction order): an add that takes a timeline beyond
\* MaxTimelineSize entries leaves exactly MaxTimelineSize entries, those
\* with the highest scores, and the entries it evicts are of the earliest
\* posts: no evicted post was created after a post that stays.
C19_CapEvictionOrder ==
    \A u \in Viewers : \A p \in StoreIDs :
        LET z    == timeline[u]
            kept == AddEntry(z, p, posts[p].createdAt)
        IN  Cardinality(z \cup {Entry(p)}) > MaxTimelineSize
            => /\ Cardinality(kept) = MaxTimelineSize
               /\ \A e \in Evicted(z, p) : \A r \in kept :
                     /\ e.score <= r.score
                     /\ posts[e.member].createdAt <= posts[r.member].createdAt

\* the pages a client gets from timeline z with limit `limit`: the first
\* call with `cursor`, every further call with the cursor returned, until
\* a page says has_more = false (at most `calls` further calls)
RECURSIVE PagesFrom(_, _, _, _)
PagesFrom(z, cursor, limit, calls) ==
    LET page == GetTimeline(z, cursor, limit)
    IN  IF page.hasMore /\ calls > 0
        THEN <<page>> \o PagesFrom(z, page.nextCursor, limit, calls - 1)
        ELSE <<page>>

\* the items of the pages, one after the other
RECURSIVE ItemsOf(_)
ItemsOf(pages) ==
    IF pages = <<>> THEN <<>> ELSE pages[1].items \o ItemsOf(Tail(pages))

\* the entries of z from the highest rank to the lowest
Descending(z) ==
    [i \in 1..Cardinality(z) |->
        CHOOSE e \in z : Cardinality({x \in z : ZLess(e, x)}) = i - 1]

DistinctScores(z) == \A x, y \in z : x # y => x.score # y.score

\* C20 (paging partitions the timeline): for a timeline whose entries have
\* pairwise distinct scores, the calls with limit L that start without a
\* cursor and pass each returned cursor return the entries in descending
\* score order, every entry once, in pages of L entries (the last may be
\* shorter), with has_more true on every page but the last.
C20_PagingPartitions ==
    \A u \in Viewers : \A limit \in Limits :
        LET z     == timeline[u]
            pages == PagesFrom(z, EmptyCursor, limit, Cardinality(z))
        IN  DistinctScores(z)
            => /\ ItemsOf(pages) = Descending(z)
               /\ \A i \in 1..Len(pages) :
                     /\ i < Len(pages) => Len(pages[i].items) = limit
                     /\ pages[i].hasMore <=> i < Len(pages)

\* ------------------------------------------------------------------------
\* Properties of the timeline key's expiration
\* ------------------------------------------------------------------------
\* the cache lifetime of the class of user u
ClassTTL(u) == DetermineUserCacheStrategy(calculateUserActivity(users[u])).cacheTTL

\* C21 (TTL refresh by class): after an add or a batch add to an owner's
\* timeline the TTL of the timeline is the cache lifetime of the owner's
\* class (VIP 30 days, active 7 days, inactive 2 hours).
C21_TTLRefreshByClass ==
    [][\A u \in Viewers :
          timeline'[u] # timeline[u] => ttl'[u] = ClassTTL(u)]_vars

\* ------------------------------------------------------------------------
\* Properties of delete_post
\* ------------------------------------------------------------------------
\* delete_post of user u for post p, whichever route serves it, has the
\* outcome the interface gives it
DeleteOutcomeOk(out, u, p) ==
    LET unchanged == /\ out.posts = posts
                     /\ out.timeline = timeline
                     /\ out.events = events
    IN  /\ p \notin Live => out.result = "not_found" /\ unchanged
        /\ (p \in Live /\ posts[p].userID # u)
             => out.result = "permission_denied" /\ unchanged
        /\ (p \in Live /\ posts[p].userID = u)
             => out.result = "ok" /\ out.posts[p].isDeleted

\* C22 (delete_post outcomes): delete_post by a user who is not the author
\* returns permission_denied, delete_post of a missing or tombstoned post
\* returns not_found, both leaving the posts, the timelines and the event
\* bus as they are; the author's delete_post returns ok and tombstones the
\* post.
C22_DeletePostOutcomes ==
    \A u \in Users : \A p \in PostIDs : \A pubOk \in BOOLEAN :
        /\ DeleteOutcomeOk(FeedServiceDeletePost(u, p, pubOk), u, p)
        /\ DeleteOutcomeOk(OptimizedHandlerDeletePost(u, p, pubOk), u, p)

\* ------------------------------------------------------------------------
\* Specification of the fan-out and the recovery job alone: posts are
\* published and distributed while time passes and the recovery cycles run
\* ------------------------------------------------------------------------
RecoveryNext ==
    \/ Tick
    \/ Elapse
    \/ \E u \in Authors : CreatePost(u)
    \/ \E p \in PostIDs : Distribute(p)
    \/ RecoverPendingDistributions

RecoverySpec == Init /\ [][RecoveryNext]_vars

\* ------------------------------------------------------------------------
\* Unfollow and the event consumer
\* ------------------------------------------------------------------------
\* the consumer has fetched every event of its topic and no handler runs
Quiescent ==
    /\ reader.offset = Len(events)
    /\ \A w \in Workers : workers[w] = 0

\* the entries of the sorted set z whose post was written by author
PostsOfAuthor(z, author) == {e \in z : posts[e.member].userID = author}

\* C23 (unfollow purge): once follower F has unfollowed A, the consumer has
\* nothing left to handle and handleFollowDeleted has run for the pair, no
\* post of A is in timeline(F).
C23_UnfollowPurge ==
    \A follower \in Viewers, following \in Authors :
        (<<follower, following>> \notin follows /\ Quiescent) =>
            LET out == handleFollowDeleted(FollowDeletedEvent(follower, following),
                                           TRUE)
            IN  PostsOfAuthor(out.timeline[follower], following) = {}

\* ------------------------------------------------------------------------
\* Order of the posts of one author
\* ------------------------------------------------------------------------
\* C24 (same-author order): two posts of one author that a read of the
\* owner's timeline returns together come in the order of their created_at,
\* the newer first.
C24_SameAuthorOrder ==
    \A u \in Viewers :
        LET items == GetTimeline(timeline[u], EmptyCursor, MaxTimelineSize).items
        IN  \A i, j \in 1..Len(items) :
                (/\ i < j
                 /\ posts[items[i].member].userID = posts[items[j].member].userID)
                => posts[items[i].member].createdAt >= posts[items[j].member].createdAt

\* ------------------------------------------------------------------------
\* The distribution ledger
\* ------------------------------------------------------------------------
\* the step is the fan-out of post p
DistributeStep(p) ==
    /\ posts[p] # NoPost
    /\ posts[p].state = "created"
    /\ posts'[p].state # "created"

\* the status values that the recovery takes for an unfinished fan-out
StartedStatuses == {"influencer_push_started", "regular_push_started"}

\* C25 (ledger protocol): a fan-out that wrote to a timeline has left a
\* record of the post in the ledger (written before the first timeline
\* write), and the record's status is a completed one only if every write of
\* the fan-out succeeded.
C25_LedgerProtocol ==
    [][\A p \in PostIDs :
          DistributeStep(p)
          => /\ timeline' # timeline => ledger'[p] # NoRecord
             /\ (/\ ledger'[p] # NoRecord
                 /\ ledger'[p].status \notin StartedStatuses)
                => posts'[p].writesOk]_vars

\* C26 (failed fan-out stays pending): a fan-out whose follower listing
\* failed or whose batch write failed in part returns an error and leaves
\* the post's record in the ledger with a started status.
C26_FailedFanoutPending ==
    [][\A p \in PostIDs :
          (/\ DistributeStep(p)
           /\ posts'[p].state # "crashed"
           /\ ~posts'[p].listOk \/ ~posts'[p].batchOk)
          => /\ posts'[p].distErr
             /\ ledger'[p] # NoRecord
             /\ ledger'[p].status \in StartedStatuses]_vars

\* the stores that the recovery works on
RecoveryStores == [timeline |-> timeline, ttl |-> ttl, ledger |-> ledger]

\* C27 (recovery eligibility): recoverSingleDistribution changes the ledger
\* or a timeline only for a record that is not completed and is older than
\* RecoveryTimeout; for a completed record and for a younger record of a
\* live post the stores stay as they are.
C27_RecoveryEligibility ==
    \A p \in PostIDs :
        (ledger[p] # NoRecord /\ p \in Live)
        => LET eligible == /\ ledger[p].status \notin CompletedStatuses
                           /\ Unix(now) - ledger[p].timestamp > RecoveryTimeout
           IN  ~eligible => recoverSingleDistribution(RecoveryStores, p) = RecoveryStores

\* the entries of the sorted set z for post p
EntriesOfPost(z, p) == {e \in z : e.member = p}

Succeeded(i) == \E h \in handled : h.offset = i /\ h.ok

\* C29 (at-least-once handling): an offset is committed only once the
\* handler of its event has returned without an error.
C29_CommitAfterSuccess ==
    \A i \in 1..reader.committed : Succeeded(i)

\* C30 (per-key order): the handling of an event does not begin while the
\* handling of another event with the same key is under way.
C30_PerKeyOrder ==
    \A w1, w2 \in Workers :
        (/\ w1 # w2
         /\ workers[w1] # 0
         /\ workers[w2] # 0)
        => events[workers[w1]].key # events[workers[w2]].key

\* ------------------------------------------------------------------------
\* Back-fill on follow
\* ------------------------------------------------------------------------
\* C31 (idempotent back-fill): once handleFollowCreated has handled the
\* follow_created event of follower F and followee A, and once more when
\* the event is delivered again, the table it writes holds at most one row
\* for F and each post, whatever rows were there.
C31_IdempotentBackfill ==
    \A follower \in Viewers, following \in Authors :
        LET once  == handleFollowCreated(FollowCreatedEvent(follower, following),
                                         TRUE).timelines
            again == CreateBatch(once, follower,
                                 GetByUserID(following, BackfillLimit))
        IN  \A p \in PostIDs :
                /\ Cardinality(RowsOf(once, follower, p)) <= 1
                /\ Cardinality(RowsOf(again, follower, p)) <= 1

\* ------------------------------------------------------------------------
\* Tombstones and the writers of the timelines
\* ------------------------------------------------------------------------
\* C32 (no insertion of tombstoned posts): a step that puts post p into a
\* timeline that did not hold it finds p not tombstoned.
C32_NoTombstonedInsert ==
    [][\A u \in Users : \A p \in PostIDs :
          (p \in ZMembers(timeline'[u]) /\ p \notin ZMembers(timeline[u]))
          => ~posts[p].isDeleted]_vars

\* ------------------------------------------------------------------------
\* Re-application of the cache strategy
\* ------------------------------------------------------------------------
\* the policy of the class that the stored row of a user puts the user in
\* (the code has no VIP predicate)
ClassPolicy(user) == DetermineUserCacheStrategy(calculateUserActivity(user))

\* C33 (strategy re-application): ApplyCacheStrategy for user u leaves u's
\* timeline with the lifetime of u's current class and, if it was larger
\* than the class's cap, with the newest cap entries only.
C33_StrategyReapplication ==
    [][\A u \in Viewers :
          UpdateUserActivity(u, "login") =>
              LET policy == ClassPolicy(users'[u])
              IN  /\ timeline[u] # {} => ttl'[u] = policy.cacheTTL
                  /\ timeline'[u] =
                        IF ZCard(timeline[u]) > policy.maxTimelineItems
                        THEN trimUserTimeline(timeline[u], policy.maxTimelineItems)
                        ELSE timeline[u]]_vars

\* C39 (no trim of active users): ApplyCacheStrategy for a user whose row
\* makes the user active removes no entry of the user's timeline, also when
\* the activity could not be determined.
C39_NoTrimOfActive ==
    [][\A u \in Viewers :
          (UpdateUserActivity(u, "login") /\ calculateUserActivity(users'[u]))
          => timeline[u] \subseteq timeline'[u]]_vars

\* C34 (rebuild does not lose pushes): the rebuild of a viewer's timeline
\* that a pull-mode read started removes no entry that was pushed to the
\* timeline since.
C34_RebuildKeepsPushes ==
    [][\A job \in rebuilds :
          rebuildTimelineCache(job) =>
              ZMembers(timeline[job.userID]) \subseteq
                  ZMembers(timeline'[job.userID])]_vars

\* ------------------------------------------------------------------------
\* Completeness of the feed
\* ------------------------------------------------------------------------
\* the live posts of viewer v and of the users v follows that were
\* published before the current second
FeedPosts(v) ==
    {p \in Live : /\ posts[p].state = "returned"
                  /\ Author(p) \in Following(v) \cup {v}
                  /\ Unix(posts[p].createdAt) < Unix(now)}

\* the fan-out of post p listed viewer v and every write of it succeeded
PushedTo(v, p) == v \in posts[p].followers /\ posts[p].writesOk

\* C35 (feed completeness): when a paging sequence of get_feed calls that
\* started without a cursor ends with has_more = false, every published
\* live post of the viewer's followees has been returned: all of them when
\* the first page is the last, and all posts older than the first page when
\* the second page is the last.  Stated for runs in which no store call has
\* failed and every such post was pushed to the viewer.
C35_FeedCompleteness ==
    [][\A v \in Viewers :
          (/\ FeedRead(v) /\ resp'.path # "error" /\ ~resp'.hasMore
           /\ faults' = 0
           /\ \A p \in FeedPosts(v) : PushedTo(v, p))
          => /\ resp'.cursor = EmptyCursor
                => FeedPosts(v) \subseteq SeqToSet(resp'.posts)
             /\ (NextFeedPageRead /\ resp.cursor = EmptyCursor /\ resp.posts # <<>>)
                => \A p \in FeedPosts(v) :
                      posts[p].createdAt < posts[Last(resp.posts)].createdAt
                      => p \in SeqToSet(resp'.posts)]_vars

\* ------------------------------------------------------------------------
\* Specification of the follow graph: viewers follow and unfollow the
\* author while the author publishes and the viewers read
\* ------------------------------------------------------------------------
\* Follow and Unfollow calls that publish their event, in one behaviour
MaxFollowCalls == 2

\* a Follow call that returns no error.  countOk: the followers count was
\* updated; pubOk: the event was published (both errors are only logged).
\* followRepo.Get does not see a soft-deleted row, so a new row is created
\* beside it
Follow(follower, following) ==
    /\ Len(userEvents) < MaxFollowCalls
    /\ <<follower, following>> \notin follows
    /\ follows' = follows \cup {<<follower, following>>}
    /\ \E countOk, pubOk \in BOOLEAN :
         /\ faults' = faults + Failures(<<countOk, pubOk>>)
         /\ faults' <= MaxFaults
         /\ users' = IF countOk
                     THEN [users EXCEPT ![following].followers = @ + 1]
                     ELSE users
         /\ userEvents' = IF pubOk
                          THEN Append(userEvents,
                                      FollowCreatedEvent(follower, following))
                          ELSE userEvents
    /\ UNCHANGED <<now, posts, timeline, ttl, ledger, activeFollowers, userActive,
                   events, rebuilds, resp, requests, recovery>>
    /\ UNCHANGED <<timelines, reader, workers, handled, unfollowed, feedCache>>

\* Follow(follower, following) runs between the GetByID and the
\* userRepo.Update of an ActivityService.UpdateUserActivity call for the
\* followed user: Update saves the whole row that was read, the followers
\* column included
FollowDuringUpdateUserActivity(follower, following, activityType) ==
    /\ Len(userEvents) < MaxFollowCalls
    /\ <<follower, following>> \notin follows
    /\ follows' = follows \cup {<<follower, following>>}
    /\ users' = [users EXCEPT ![following] = UpdatedUser(@, activityType)]
    /\ userActive' = [userActive EXCEPT ![following] = Nil]
    /\ userEvents' = Append(userEvents, FollowCreatedEvent(follower, following))
    /\ UNCHANGED <<now, posts, timeline, ttl, ledger, activeFollowers, events,
                   rebuilds, resp, requests, recovery, faults>>
    /\ UNCHANGED <<timelines, reader, workers, handled, unfollowed, feedCache>>

FollowNext ==
    \/ \E follower \in Viewers, following \in Authors : Follow(follower, following)
    \/ \E follower \in Viewers, following \in Authors :
          Len(userEvents) < MaxFollowCalls /\ Unfollow(follower, following)
    \/ \E follower \in Viewers, following \in Authors :
          FollowDuringUpdateUserActivity(follower, following, "login")
    \/ \E u \in Authors : CreatePost(u)
    \/ \E p \in PostIDs : Distribute(p)
    \/ \E v \in Viewers, limit \in Limits : GetFeed(v, limit)

FollowSpec == Init /\ [][FollowNext]_vars

\* follower has unfollowed the user and has not followed again
Unfollowed(follower, following) ==
    /\ <<follower, following>> \in unfollowed
    /\ <<follower, following>> \notin follows

\* C36 (unfollow stops delivery): once Unfollow(F, A) has succeeded, a
\* publish by A writes no entry to F's timeline and a pull-mode page of F
\* holds no post of A.
C36_UnfollowStopsDelivery ==
    [][\A v \in Viewers :
          /\ \A p \in Created :
                (DistributeStep(p) /\ Unfollowed(v, Author(p)))
                => (Holds(timeline', v, p) => Holds(timeline, v, p))
          /\ (FeedRead(v) /\ resp'.path = "pull")
             => \A q \in SeqToSet(resp'.posts) : ~Unfollowed(v, Author(q))]_vars

\* C37 (follower counter consistency): the followers counter of a user is
\* the number of follow edges that point to the user, in a run in which no
\* store call has failed.
C37_FollowerCounter ==
    faults = 0
    => \A u \in Users :
          users[u].followers = Cardinality({e \in follows : e[2] = u})

\* ------------------------------------------------------------------------
\* FeedService.GetFeed: the feed read from the timelines table, with its
\* response cache
\* ------------------------------------------------------------------------
\* encodeCursor / decodeCursor: the offset as JSON; anything else decodes
\* to 0
encodeCursor(offset) == [kind |-> "offset", val |-> offset]

decodeCursor(cursor) == IF cursor.kind = "offset" THEN cursor.val ELSE 0

\* the cursors a client passes: none, or one a response carried
FeedServiceCursors == {EmptyCursor} \cup {encodeCursor(o) : o \in 1..(MaxPosts - 1)}

\* rows in the order of the query (rows of equal rank in one fixed order)
RECURSIVE NewestFirst(_)
NewestFirst(rows) ==
    IF rows = {} THEN <<>>
    ELSE LET r == CHOOSE x \in rows :
                     \A y \in rows : posts[y[2]].createdAt <= posts[x[2]].createdAt
         IN  <<r>> \o NewestFirst(rows \ {r})

\* TimelineRepository.GetByUserID(userID, offset, limit)
TimelineGetByUserID(userID, offset, limit) ==
    LET all == NewestFirst({row \in timelines : row[1] = userID})
    IN  SubSeq(all, offset + 1, Min(offset + limit, Len(all)))

\* the response GetFeed builds from the table
FeedServiceResponse(v, cursor, limit) ==
    LET offset  == IF cursor # EmptyCursor THEN decodeCursor(cursor) ELSE 0
        rows    == TimelineGetByUserID(v, offset, limit + 1)
        hasMore == Len(rows) > limit
        page    == IF hasMore THEN SubSeq(rows, 1, limit) ELSE rows
        ids     == [i \in 1..Len(page) |-> page[i][2]]
    IN  [viewer     |-> v,
         cursor     |-> cursor,
         limit      |-> limit,
         posts      |-> SelectSeq(ids, LAMBDA p : ~posts[p].isDeleted),
         nextCursor |-> IF hasMore THEN encodeCursor(offset + limit)
                        ELSE EmptyCursor,
         hasMore    |-> hasMore]

\* getCachedFeed: the responses cached under feed:<v>:<cursor>:<limit>
getCachedFeed(v, cursor, limit) ==
    {c \in feedCache : c.viewer = v /\ c.cursor = cursor /\ c.limit = limit}

\* what GetFeed(v, cursor, limit) returns in the current state
FeedServiceGetFeedResult(v, cursor, limit) ==
    LET cached == getCachedFeed(v, cursor, limit)
    IN  IF cached # {} THEN CHOOSE c \in cached : TRUE
        ELSE FeedServiceResponse(v, cursor, limit)

\* a GetFeed call that misses the cache (a hit changes nothing).  cacheOk:
\* cacheFeed stored the response (its error is only logged)
FeedServiceGetFeed(v, cursor, limit) ==
    /\ getCachedFeed(v, cursor, limit) = {}
    /\ \E cacheOk \in BOOLEAN :
         /\ faults' = faults + Failures(<<cacheOk>>)
         /\ faults' <= MaxFaults
         /\ feedCache' = IF cacheOk
                         THEN feedCache \cup {FeedServiceResponse(v, cursor, limit)}
                         ELSE feedCache
    /\ UNCHANGED <<now, follows, users, posts, timeline, ttl, ledger,
                   activeFollowers, userActive, events, rebuilds, resp, requests,
                   recovery>>
    /\ UNCHANGED <<timelines, userEvents, reader, workers, handled, unfollowed>>

\* a cached response reaches the end of config.CacheTTL
FeedCacheExpires(c) ==
    /\ c \in feedCache
    /\ feedCache' = feedCache \ {c}
    /\ UNCHANGED <<now, follows, users, posts, timeline, ttl, ledger,
                   activeFollowers, userActive, events, rebuilds, resp, requests,
                   recovery, faults>>
    /\ UNCHANGED <<timelines, userEvents, reader, workers, handled, unfollowed>>

FeedServiceNext ==
    \/ \E u \in Authors, p \in PostIDs : DeletePost(u, p)
    \/ \E v \in Viewers, cursor \in FeedServiceCursors, limit \in Limits :
          FeedServiceGetFeed(v, cursor, limit)
    \/ \E c \in feedCache : FeedCacheExpires(c)

FeedServiceSpec == BusInit /\ [][FeedServiceNext]_vars

\* C38 (deleted posts leave the v1 feed): once FeedService.DeletePost(p) has
\* returned without error, no FeedService.GetFeed response, for any viewer,
\* cursor and limit, holds p.
C38_DeletedLeaveFeed ==
    \A v \in Viewers : \A cursor \in FeedServiceCursors : \A limit \in Limits :
        \A p \in SeqToSet(FeedServiceGetFeedResult(v, cursor, limit).posts) :
            ~posts[p].isDeleted

====
